---- MODULE Spec2Model ----
(***************************************************************************)
(* The thread-aware event dispatcher of src/tests/test-looper.cpp:         *)
(* class handler_container (the signature gate) and class handler (the     *)
(* registry _events, the queue _pending_remote_calls, on, unregister_event,*)
(* emit, loop, quit).  Every thread is a caller of the public operations;  *)
(* emit and loop are split at the points where other threads can           *)
(* interleave (each slot visit, the queue lock, each handler body, the     *)
(* wait condition, the quit check).                                        *)
(***************************************************************************)
EXTENDS Integers, Sequences, FiniteSets, TLC

\* ---------------------------------------------------------------- bounds
\* Total number of public operations (on, unregister_event, emit, loop,
\* quit) called in one behaviour.
MaxOps == 4
\* Largest number of slots registered under one event name.
MaxSlots == 2

\* ------------------------------------------------------------ input sets
Threads == {1, 2}
Names == {"ping"}
\* Parameter lists of the callables given to on().
HandlerParams == {<<>>, <<"int">>, <<"int", "int">>}
\* Argument type lists Args... that emit() is instantiated with.
EmitArgs == {<<>>, <<"int&">>, <<"char">>}

VARIABLES
    events,      \* _events: name -> vector of (owner thread, handler_container)
    queue,       \* _pending_remote_calls
    qlock,       \* _queue_mutex: 0 = free, else the thread holding it
    lmutex,      \* _loop_mutex: 0 = free, else the thread holding it
    quited,      \* _quited
    crashed,     \* the process has died on an access to released memory
    nOps,        \* number of public operations called so far
    pc,          \* per thread: where it is inside emit() or loop()
    em,          \* per thread: the locals of its running (or last) emit()
    cur,         \* per thread: the call it is pushing or executing
    enteredQuit, \* per thread: _quited as it was when it called loop()
    result,      \* per thread: how its last operation ended
    pushed,      \* history: the pending calls in the order push() took them
    invoked      \* history: the pending calls in the order loop() popped them

vars == <<events, queue, qlock, lmutex, quited, crashed, nOps, pc, em, cur,
          enteredQuit, result, pushed, invoked>>

\* ------------------------------------------------------- callables, slots
\* A wrapped callable (the wrapper_type object allocated at line 43): its
\* identity, the thread that registered it and its declared parameters.
NullH == [id |-> 0, owner |-> 0, params |-> <<>>]

\* std::decay of one argument type.
Decay(ty) == IF ty = "int&" THEN "int" ELSE ty

\* function_parser<...>::decayed_arg_types
decayed_arg_types(F) == [i \in 1..Len(F) |-> Decay(F[i])]

\* handler_container::handler_container: _args_count, _args_info, _handler.
handler_container(h) ==
    [count  |-> Len(decayed_arg_types(h.params)),
     tag    |-> decayed_arg_types(h.params),
     handle |-> h]

\* Faulty variant of the gate: the zero-argument branch forgets _args_count.
callable_ptr_nocount(hc, F) ==
    LET callee_arg_types == decayed_arg_types(F) IN
    IF callee_arg_types = <<>>
    THEN hc.handle
    ELSE IF hc.tag = callee_arg_types THEN hc.handle ELSE NullH

\* handler_container::callable_ptr<void(Args...)>: the callable, or NullH
\* (nullptr) when the signature does not match.
callable_ptr(hc, F) ==
    LET callee_arg_types == decayed_arg_types(F) IN
    IF callee_arg_types = <<>>
    THEN IF hc.count = 0 THEN hc.handle ELSE NullH
    ELSE IF hc.tag = callee_arg_types THEN hc.handle ELSE NullH

\* The wrapped callable is owned by the shared_ptr of its registry slot
\* alone (a pending call captures the raw pointer, line 166): it is alive
\* exactly while a slot of the registry holds it.
Alive(h) ==
    \E n \in Names : \E i \in 1..Len(events[n]) : events[n][i].second.handle = h

\* Calling a released callable is a use after free: the stale body runs, or
\* the process dies.  The set of values crashed can take.
InvokeOutcomes(h) == IF Alive(h) THEN {FALSE} ELSE {FALSE, TRUE}

NoCall == [h |-> NullH, args |-> <<>>, emit |-> 0]

NoEmit == [name |-> "", args |-> <<>>, id |-> 0, idx |-> 0, end |-> 0,
           view |-> <<>>, stale |-> FALSE, trace |-> <<>>]

InEmit(t) == pc[t] \in {"emit_iter", "emit_handler", "emit_push", "emit_pushing"}

InLoop(t) ==
    pc[t] \in {"loop_lock", "loop_wait", "loop_check", "loop_pop", "loop_handler"}

\* ------------------------------------------------------------------ Init
Init ==
    /\ events = [n \in Names |-> <<>>]
    /\ queue = <<>>
    /\ qlock = 0
    /\ lmutex = 0
    /\ quited = FALSE
    /\ crashed = FALSE
    /\ nOps = 0
    /\ pc = [t \in Threads |-> "idle"]
    /\ em = [t \in Threads |-> NoEmit]
    /\ cur = [t \in Threads |-> NoCall]
    /\ enteredQuit = [t \in Threads |-> FALSE]
    /\ result = [t \in Threads |-> "none"]
    /\ pushed = <<>>
    /\ invoked = <<>>

\* A thread that is in no operation may call one.
CanCall(t) == pc[t] = "idle" /\ ~crashed /\ nOps < MaxOps

\* The iterators of every emit() that is walking the vector of name n are
\* invalidated (the buffer they point into has been freed).
Invalidate(n) ==
    [u \in Threads |->
        IF InEmit(u) /\ em[u].name = n THEN [em[u] EXCEPT !.stale = TRUE]
        ELSE em[u]]

\* ------------------------------------------------------------------- on
\* Faulty variant of the registration: the new slot goes to the front.
push_front(vec, slot) == <<slot>> \o vec

\* _events[name].push_back(make_pair(this_thread::get_id(),
\* handler_container(handler))).  realloc: whether push_back moved the
\* vector to a new buffer (the growth policy decides; only a non-empty
\* vector has a buffer to leave).
push_back(vec, slot) == Append(vec, slot)

On(t, n, p, realloc) ==
    /\ CanCall(t)
    /\ Len(events[n]) < MaxSlots
    /\ realloc => Len(events[n]) > 0
    /\ LET h == [id |-> nOps + 1, owner |-> t, params |-> p] IN
       events' = [events EXCEPT
                    ![n] = push_back(@, [first |-> t, second |-> handler_container(h)])]
    /\ em' = IF realloc THEN Invalidate(n) ELSE em
    /\ nOps' = nOps + 1
    /\ result' = [result EXCEPT ![t] = "on"]
    /\ UNCHANGED <<queue, qlock, lmutex, quited, crashed, pc, cur, enteredQuit,
                   pushed, invoked>>

\* ----------------------------------------------------- unregister_event
\* _events.erase(name): the whole vector of the name is destroyed, and with
\* it the shared_ptr of every slot.
erase(n) == [events EXCEPT ![n] = <<>>]

Unregister(t, n) ==
    /\ CanCall(t)
    /\ events' = erase(n)
    /\ em' = IF events[n] # <<>> THEN Invalidate(n) ELSE em
    /\ nOps' = nOps + 1
    /\ result' = [result EXCEPT ![t] = "unregister"]
    /\ UNCHANGED <<queue, qlock, lmutex, quited, crashed, pc, cur, enteredQuit,
                   pushed, invoked>>

\* ----------------------------------------------------------------- quit
\* Faulty variant of quit: the flag is toggled.
Quit_toggle(t) ==
    /\ CanCall(t)
    /\ quited' = ~quited
    /\ nOps' = nOps + 1
    /\ result' = [result EXCEPT ![t] = "quit"]
    /\ UNCHANGED <<events, queue, qlock, lmutex, crashed, pc, em, cur, enteredQuit,
                   pushed, invoked>>

\* Lines 188-190: _quited = true.
Quit(t) ==
    /\ CanCall(t)
    /\ quited' = TRUE
    /\ nOps' = nOps + 1
    /\ result' = [result EXCEPT ![t] = "quit"]
    /\ UNCHANGED <<events, queue, qlock, lmutex, crashed, pc, em, cur, enteredQuit,
                   pushed, invoked>>

\* ----------------------------------------------------------------- emit
\* Faulty variant of the lookup: the early return is missing.
absent_never(n) == FALSE

\* Lines 151-154: _events.find(name); an absent name returns at once.
\* Otherwise the range-for takes begin and end of the name's vector.
absent(n) == events[n] = <<>>

EmitCall(t, n, a) ==
    /\ CanCall(t)
    /\ nOps' = nOps + 1
    /\ em' = [em EXCEPT ![t] =
                [name |-> n, args |-> a, id |-> nOps + 1, idx |-> 1,
                 end |-> Len(events[n]), view |-> events[n],
                 stale |-> FALSE, trace |-> <<>>]]
    /\ IF absent(n)
       THEN /\ result' = [result EXCEPT ![t] = "emit_noop"]
            /\ UNCHANGED pc
       ELSE /\ pc' = [pc EXCEPT ![t] = "emit_iter"]
            /\ result' = [result EXCEPT ![t] = "running"]
    /\ UNCHANGED <<events, queue, qlock, lmutex, quited, crashed, cur, enteredQuit,
                   pushed, invoked>>

\* What `fn` (line 156) can be when emit() of thread t dereferences its
\* iterator.  With valid iterators it is the slot of the registry.  The
\* registry is not locked, so on() and unregister_event() of another
\* thread can free the buffer under the iterator; the read is then of
\* what the vector left in the freed buffer: after a reallocating
\* push_back moved-from slots (a null _handler), after erase destroyed
\* slots (the _handler pointer dangles, see Alive), and a read that raced
\* with either may still see the slot as it was.
Observed(t) ==
    LET e == em[t] IN
    IF e.stale
    THEN {e.view[e.idx], [e.view[e.idx] EXCEPT !.second.handle = NullH]}
    ELSE {events[e.name][e.idx]}

\* Faulty variants of the owner test: inverted, and dropped.
same_thread_inverted(first, t) == first # t

same_thread_always(first, t) == TRUE

\* Line 162: fn.first == std::this_thread::get_id()
same_thread(first, t) == first = t

\* The slot after this one in the range-for.
advance(e, h, how) ==
    [e EXCEPT !.idx = @ + 1, !.trace = Append(@, [id |-> h.id, how |-> how])]

\* Faulty variant of the mismatch branch: the slot is skipped, emit goes on.
Throw_skip(t) ==
    /\ em' = [em EXCEPT ![t].idx = @ + 1]
    /\ UNCHANGED <<pc, result, cur, crashed>>

\* Lines 158-160: throw_ex<mpp::runtime_error>; the exception leaves emit.
Throw(t) ==
    /\ pc' = [pc EXCEPT ![t] = "idle"]
    /\ result' = [result EXCEPT ![t] = "InvalidArgumentSignature"]
    /\ UNCHANGED <<em, cur, crashed>>

\* Lines 156-170, one slot: the signature gate, then the owner test.
EmitVisit(t) ==
    /\ pc[t] = "emit_iter" /\ ~crashed
    /\ em[t].idx <= em[t].end
    /\ \E fn \in Observed(t) :
         LET handler == callable_ptr(fn.second, em[t].args)
             call == [h |-> handler, args |-> em[t].args, emit |-> em[t].id]
         IN
         IF handler = NullH
         THEN
              Throw(t)
         ELSE IF same_thread(fn.first, t)
         THEN \* line 163: (*handler)(args...)
              /\ pc' = [pc EXCEPT ![t] = "emit_handler"]
              /\ cur' = [cur EXCEPT ![t] = call]
              /\ crashed' \in InvokeOutcomes(handler)
              /\ UNCHANGED <<em, result>>
         ELSE \* line 165: make_unique<remote_fn_t>, push_remote_call
              /\ pc' = [pc EXCEPT ![t] = "emit_push"]
              /\ cur' = [cur EXCEPT ![t] = call]
              /\ UNCHANGED <<em, result, crashed>>
    /\ UNCHANGED <<events, queue, qlock, lmutex, quited, nOps, enteredQuit,
                   pushed, invoked>>

\* The handler body called at line 163 returns: on to the next slot.
EmitHandlerReturn(t) ==
    /\ pc[t] = "emit_handler" /\ ~crashed
    /\ pc' = [pc EXCEPT ![t] = "emit_iter"]
    /\ em' = [em EXCEPT ![t] = advance(@, cur[t].h, "sync")]
    /\ cur' = [cur EXCEPT ![t] = NoCall]
    /\ UNCHANGED <<events, queue, qlock, lmutex, quited, crashed, nOps,
                   enteredQuit, result, pushed, invoked>>

\* The handler body called at line 163 throws: nothing in emit catches it.
EmitHandlerThrow(t) ==
    /\ pc[t] = "emit_handler" /\ ~crashed
    /\ pc' = [pc EXCEPT ![t] = "idle"]
    /\ cur' = [cur EXCEPT ![t] = NoCall]
    /\ result' = [result EXCEPT ![t] = "emit_handler_threw"]
    /\ UNCHANGED <<events, queue, qlock, lmutex, quited, crashed, nOps, em, enteredQuit,
                   pushed, invoked>>

\* Faulty variant of the push: the call is pushed twice.
push_twice(q, call) == Append(Append(q, call), call)

\* push_remote_call, lines 101-102: lock _queue_mutex, push.
push(q, call) == Append(q, call)

\* Faulty variant of the push: it locks _loop_mutex, not _queue_mutex.
push_lockable_loop_mutex == lmutex = 0

\* Line 101: std::lock_guard<std::mutex> lg(_queue_mutex) can be taken.
push_lockable == qlock = 0

PushBegin(t) ==
    /\ pc[t] = "emit_push" /\ ~crashed
    /\ push_lockable
    /\ qlock' = t
    /\ queue' = push(queue, cur[t])
    /\ pushed' = Append(pushed, cur[t])
    /\ pc' = [pc EXCEPT ![t] = "emit_pushing"]
    /\ UNCHANGED <<events, lmutex, quited, crashed, nOps, em, cur, enteredQuit, result,
                   invoked>>

\* push_remote_call, line 103: the lock_guard releases _queue_mutex; emit
\* goes on to the next slot.
PushEnd(t) ==
    /\ pc[t] = "emit_pushing" /\ ~crashed
    /\ qlock' = 0
    /\ pc' = [pc EXCEPT ![t] = "emit_iter"]
    /\ em' = [em EXCEPT ![t] = advance(@, cur[t].h, "queued")]
    /\ cur' = [cur EXCEPT ![t] = NoCall]
    /\ UNCHANGED <<events, queue, lmutex, quited, crashed, nOps, enteredQuit, result,
                   pushed, invoked>>

\* Line 172: the range-for is over, emit returns.
EmitReturn(t) ==
    /\ pc[t] = "emit_iter" /\ ~crashed
    /\ em[t].idx > em[t].end
    /\ pc' = [pc EXCEPT ![t] = "idle"]
    /\ result' = [result EXCEPT ![t] = "emit_returned"]
    /\ UNCHANGED <<events, queue, qlock, lmutex, quited, crashed, nOps, em, cur,
                   enteredQuit, pushed, invoked>>

\* ----------------------------------------------------------------- loop
\* Line 175 is reached: the caller waits for _loop_mutex.
LoopCall(t) ==
    /\ CanCall(t)
    /\ nOps' = nOps + 1
    /\ pc' = [pc EXCEPT ![t] = "loop_lock"]
    /\ enteredQuit' = [enteredQuit EXCEPT ![t] = quited]
    /\ result' = [result EXCEPT ![t] = "running"]
    /\ UNCHANGED <<events, queue, qlock, lmutex, quited, crashed, em, cur,
                   pushed, invoked>>

\* Faulty variant of the loop lock: it is always granted.
loop_lockable_always == TRUE

\* Line 175: std::unique_lock<std::mutex> guard(_loop_mutex) can be taken.
loop_lockable == lmutex = 0

LoopLock(t) ==
    /\ pc[t] = "loop_lock" /\ ~crashed
    /\ loop_lockable
    /\ lmutex' = t
    /\ pc' = [pc EXCEPT ![t] = "loop_wait"]
    /\ UNCHANGED <<events, queue, qlock, quited, crashed, nOps, em, cur,
                   enteredQuit, result, pushed, invoked>>

\* Faulty variants of the wait: it does not look at _quited; it waits for
\* _quited alone; it does not wait.
keep_waiting_ignores_quit == queue = <<>>

keep_waiting_for_quit == ~quited

keep_waiting_never == FALSE

\* Line 177: the condition of the inner while, read without _queue_mutex.
\* While it holds the thread only yields.  A push in its critical section
\* has already put its element into `queue`, so an empty() that races with
\* it may report either.
keep_waiting == queue = <<>> /\ ~quited


LoopWaitExit(t) ==
    /\ pc[t] = "loop_wait" /\ ~crashed
    /\ ~keep_waiting
    /\ pc' = [pc EXCEPT ![t] = "loop_check"]
    /\ UNCHANGED <<events, queue, qlock, lmutex, quited, crashed, nOps, em, cur,
                   enteredQuit, result, pushed, invoked>>

\* Faulty variants of the quit check: always taken, and inverted.
quit_seen_always == TRUE

quit_seen_inverted == ~quited

\* Line 180: if (_quited)
quit_seen == quited

\* Lines 180-182 and 186: break, the guard releases _loop_mutex, return.
LoopBreak(t) ==
    /\ pc[t] = "loop_check" /\ ~crashed
    /\ quit_seen
    /\ lmutex' = 0
    /\ pc' = [pc EXCEPT ![t] = "idle"]
    /\ result' = [result EXCEPT ![t] = "loop_returned"]
    /\ UNCHANGED <<events, queue, qlock, quited, crashed, nOps, em, cur, enteredQuit,
                   pushed, invoked>>

\* Line 180 with _quited false: on to pop_remote_call.
LoopGoOn(t) ==
    /\ pc[t] = "loop_check" /\ ~crashed
    /\ ~quit_seen
    /\ pc' = [pc EXCEPT ![t] = "loop_pop"]
    /\ UNCHANGED <<events, queue, qlock, lmutex, quited, crashed, nOps, em, cur,
                   enteredQuit, result, pushed, invoked>>

\* Faulty variant of the pop: the call is taken from the back.
back(q) == q[Len(q)]

\* pop_remote_call, lines 106-109, and the call of line 184 begins.
\* front() of an empty queue is undefined: the process dies.
front(q) == Head(q)

\* Faulty variant of the pop: it does not take _queue_mutex.
pop_unlocked == TRUE

\* Line 106: std::lock_guard<std::mutex> lg(_queue_mutex) can be taken.
pop_lockable == qlock = 0

pop(q) == Tail(q)

LoopPop(t) ==
    /\ pc[t] = "loop_pop" /\ ~crashed
    /\ pop_lockable
    /\ IF queue = <<>>
       THEN /\ crashed' = TRUE
            /\ UNCHANGED <<queue, cur, pc, invoked>>
       ELSE /\ cur' = [cur EXCEPT ![t] = front(queue)]
            /\ queue' = pop(queue)
            /\ invoked' = Append(invoked, front(queue))
            /\ pc' = [pc EXCEPT ![t] = "loop_handler"]
            /\ crashed' \in InvokeOutcomes(front(queue).h)
    /\ UNCHANGED <<events, qlock, lmutex, quited, nOps, em, enteredQuit, result,
                   pushed>>

\* The pending call of line 184 returns: back to the wait.
LoopHandlerReturn(t) ==
    /\ pc[t] = "loop_handler" /\ ~crashed
    /\ pc' = [pc EXCEPT ![t] = "loop_wait"]
    /\ cur' = [cur EXCEPT ![t] = NoCall]
    /\ UNCHANGED <<events, queue, qlock, lmutex, quited, crashed, nOps, em,
                   enteredQuit, result, pushed, invoked>>

\* The pending call of line 184 throws: the exception leaves loop(), the
\* guard releases _loop_mutex on the way.
LoopHandlerThrow(t) ==
    /\ pc[t] = "loop_handler" /\ ~crashed
    /\ pc' = [pc EXCEPT ![t] = "idle"]
    /\ lmutex' = 0
    /\ cur' = [cur EXCEPT ![t] = NoCall]
    /\ result' = [result EXCEPT ![t] = "loop_handler_threw"]
    /\ UNCHANGED <<events, queue, qlock, quited, crashed, nOps, em, enteredQuit,
                   pushed, invoked>>

Next ==
    \/ \E t \in Threads, n \in Names, p \in HandlerParams, r \in BOOLEAN : On(t, n, p, r)
    \/ \E t \in Threads, n \in Names : Unregister(t, n)
    \/ \E t \in Threads, n \in Names, a \in EmitArgs : EmitCall(t, n, a)
    \/ \E t \in Threads : EmitVisit(t)
    \/ \E t \in Threads : EmitHandlerReturn(t)
    \/ \E t \in Threads : EmitHandlerThrow(t)
    \/ \E t \in Threads : PushBegin(t)
    \/ \E t \in Threads : PushEnd(t)
    \/ \E t \in Threads : EmitReturn(t)
    \/ \E t \in Threads : LoopCall(t)
    \/ \E t \in Threads : LoopLock(t)
    \/ \E t \in Threads : LoopWaitExit(t)
    \/ \E t \in Threads : LoopBreak(t)
    \/ \E t \in Threads : LoopGoOn(t)
    \/ \E t \in Threads : LoopPop(t)
    \/ \E t \in Threads : LoopHandlerReturn(t)
    \/ \E t \in Threads : LoopHandlerThrow(t)
    \/ \E t \in Threads : Quit(t)

Spec == Init /\ [][Next]_vars

\* ----------------------------------------------------------- scheduling
\* The steps of thread t inside emit(), the bodies it calls in line included.
EmitSteps(t) ==
    \/ EmitVisit(t)
    \/ EmitHandlerReturn(t)
    \/ EmitHandlerThrow(t)
    \/ PushBegin(t)
    \/ PushEnd(t)
    \/ EmitReturn(t)

\* The steps of thread t inside loop(), but for the end of the body of a
\* pending call.
LoopSteps(t) ==
    \/ LoopLock(t)
    \/ LoopWaitExit(t)
    \/ LoopBreak(t)
    \/ LoopGoOn(t)
    \/ LoopPop(t)

\* The body of the pending call that loop() of thread t runs ends.
LoopHandlerEnds(t) == LoopHandlerReturn(t) \/ LoopHandlerThrow(t)

\* Fair scheduling of the threads: a thread whose next step inside emit()
\* or loop() stays possible (its mutex free, its wait condition false)
\* takes it; a body called in line by emit() ends.  Callers need not call
\* anything, and a body run by loop() may stall for ever.
EmitFairSpec ==
    Spec /\ \A t \in Threads : WF_vars(EmitSteps(t) \/ LoopSteps(t))

\* Fair scheduling, and every handler body ends.
FairSpec ==
    Spec /\ \A t \in Threads :
                WF_vars(EmitSteps(t) \/ LoopSteps(t) \/ LoopHandlerEnds(t))

\* ================================================================ claims
HandlerPcs == {"emit_handler", "loop_handler"}

\* The emit() call with identity id is still running on thread u.
Emitting(u, id) == InEmit(u) /\ em[u].id = id

\* ---------------------------------------------------------------- C1
C1_SyncStep(t) ==
    /\ (/\ pc[t] = "emit_iter"
        /\ pc'[t] \in {"emit_handler", "emit_push"}
        /\ cur'[t].h.owner = t)
       => /\ pc'[t] = "emit_handler"
          /\ cur'[t].h = em[t].view[em[t].idx].second.handle
          /\ queue' = queue
    /\ (pc[t] = "emit_handler" /\ pc'[t] = "emit_handler")
       => /\ em'[t].idx = em[t].idx
          /\ cur'[t] = cur[t]
    /\ (pc[t] = "emit_handler" /\ pc'[t] # "emit_handler")
       => /\ queue' = queue
          /\ \/ /\ pc'[t] = "emit_iter"
                /\ em'[t].idx = em[t].idx + 1
                /\ em'[t].trace =
                     Append(em[t].trace, [id |-> cur[t].h.id, how |-> "sync"])
             \/ /\ pc'[t] = "idle"
                /\ result'[t] = "emit_handler_threw"

\* C1: when emit on thread t gets a callable from the signature gate for a
\* slot registered by t, it calls the handler in line: the handler starts in
\* that step on t, emit stays at the slot while the body runs, goes on to
\* the next slot (or ends) only when the body has completed, and the queue
\* receives no pending call for the slot.
C1_Synchronous == [][\A t \in Threads : C1_SyncStep(t)]_vars

\* An emit that has run a handler of its own thread to completion and moved
\* on, with nothing queued.
C1_Witness ==
    \E t \in Threads :
        /\ InEmit(t) /\ em[t].idx = 2
        /\ em[t].trace = <<[id |-> em[t].view[1].second.handle.id, how |-> "sync"]>>
        /\ em[t].view[1].first = t
        /\ queue = <<>>

\* ---------------------------------------------------------------- C2
C2_DeferStep(t) ==
    /\ (/\ pc[t] = "emit_iter"
        /\ pc'[t] \in {"emit_handler", "emit_push"}
        /\ cur'[t].h.owner # t)
       => /\ pc'[t] = "emit_push"
          /\ queue' = queue
    /\ (pc[t] = "emit_push" /\ pc'[t] # "emit_push")
       => /\ pc'[t] = "emit_pushing"
          /\ queue' = Append(queue, cur[t])
    /\ (pc[t] = "emit_pushing" /\ pc'[t] # "emit_pushing")
       => /\ pc'[t] = "emit_iter"
          /\ queue' = queue
          /\ em'[t].trace =
               Append(em[t].trace, [id |-> cur[t].h.id, how |-> "queued"])
    /\ (/\ pc'[t] \in HandlerPcs
        /\ pc[t] \notin HandlerPcs
        /\ cur'[t].h.owner # t)
       => /\ pc[t] = "loop_pop"
          /\ queue # <<>>
          /\ cur'[t] = Head(queue)
          /\ queue' = Tail(queue)

\* C2: when emit on thread t gets a callable for a slot registered by
\* another thread, it never runs the handler inside the emit call: it pushes
\* exactly one pending call for the slot onto the queue, and a handler
\* starts on a thread that did not register it only by a loop() popping it
\* from the head of the queue.
C2_Deferred == [][\A t \in Threads : C2_DeferStep(t)]_vars

\* A loop() on the owner runs the call that another thread's emit queued.
C2_Witness ==
    \E t, u \in Threads :
        /\ t # u
        /\ pc[t] = "loop_handler" /\ cur[t].h.owner = t
        /\ em[u].id = cur[t].emit
        /\ em[u].trace = <<[id |-> cur[t].h.id, how |-> "queued"]>>
        /\ ~crashed

\* ---------------------------------------------------------------- C3
\* C3 as claimed: a deferred handler runs only when the emit call that
\* queued it has returned.
C3_AfterEmitReturned ==
    \A t \in Threads :
        pc[t] = "loop_handler" => \A u \in Threads : ~Emitting(u, cur[t].emit)

\* C3 amended: a deferred handler runs only when the push of its pending
\* call has completed (push_remote_call has released the queue lock and emit
\* has gone past the slot); the emit call itself may still be running.
C3_AfterPush ==
    \A t \in Threads :
        pc[t] = "loop_handler" =>
            \A u \in Threads :
                Emitting(u, cur[t].emit) =>
                    \E k \in 1..Len(em[u].trace) :
                        em[u].trace[k] = [id |-> cur[t].h.id, how |-> "queued"]

\* A deferred handler runs while the emit that queued it still has a slot
\* to visit.
C3_Witness ==
    \E t, u \in Threads :
        /\ pc[t] = "loop_handler"
        /\ Emitting(u, cur[t].emit)
        /\ em[u].idx <= em[u].end
        /\ ~crashed

\* ---------------------------------------------------------------- C4
\* C4 as claimed: a handler body runs only on the thread that registered it.
C4_OwnerThreadOnly ==
    \A t \in Threads : pc[t] \in HandlerPcs => cur[t].h.owner = t

\* C4 amended: a handler body runs on a thread that did not register it only
\* inside loop(), on the thread that holds the loop lock; emit never runs it
\* there.
C4_ForeignOnlyInLoop ==
    \A t \in Threads :
        (pc[t] \in HandlerPcs /\ cur[t].h.owner # t) =>
            (pc[t] = "loop_handler" /\ lmutex = t)

\* A loop() runs a handler that another thread registered.
C4_Witness ==
    \E t \in Threads :
        pc[t] = "loop_handler" /\ cur[t].h.owner # t /\ ~crashed

\* ---------------------------------------------------------------- C5
\* Thread t returns from loop() in this step.
LoopReturns(t) == InLoop(t) /\ pc'[t] = "idle" /\ result'[t] = "loop_returned"

\* C5 as claimed: loop() returns only with the quit flag set and the queue
\* empty.
C5_ReturnsDrained ==
    [][\A t \in Threads : LoopReturns(t) => (quited /\ queue = <<>>)]_vars

\* C5 amended: loop() returns only with the quit flag set, and the quit
\* check that finds the flag set returns at once: it pops nothing and
\* leaves the pending calls in the queue.
C5_ReturnsOnQuit ==
    [][\A t \in Threads :
         /\ LoopReturns(t) =>
              /\ pc[t] = "loop_check"
              /\ quited
              /\ queue' = queue
              /\ cur'[t] = NoCall
              /\ lmutex = t /\ lmutex' = 0
         /\ (pc[t] = "loop_check" /\ pc'[t] # "loop_check" /\ quited) =>
              LoopReturns(t)]_vars

\* A loop() that was running before the quit has returned and left pending
\* calls in the queue (the other thread's last operation is the quit, so
\* nothing was pushed after the return).
C5_Witness ==
    \E t \in Threads :
        /\ pc[t] = "idle" /\ result[t] = "loop_returned" /\ ~enteredQuit[t]
        /\ queue # <<>>
        /\ \A u \in Threads \ {t} : pc[u] = "idle" /\ result[u] = "quit"

\* ---------------------------------------------------------------- C6
\* C6: a loop() called when the quit flag is already set never pops or runs
\* a pending call, is never kept waiting once it holds the loop lock (the
\* flag it waits for and checks stays set), and does not end by a handler's
\* exception.
C6_QuitBeforeLoop ==
    \A t \in Threads :
        /\ (InLoop(t) /\ enteredQuit[t]) =>
              /\ pc[t] \in {"loop_lock", "loop_wait", "loop_check"}
              /\ cur[t] = NoCall
              /\ quited
        /\ enteredQuit[t] => result[t] # "loop_handler_threw"

\* A loop() entered after quit has returned with pending calls still queued.
C6_Witness ==
    \E t \in Threads :
        /\ pc[t] = "idle" /\ result[t] = "loop_returned" /\ enteredQuit[t]
        /\ queue # <<>>
        /\ ~crashed

\* ---------------------------------------------------------------- C7
\* The slot's handler takes the decayed types of the argument list F.
Matches(slot, F) ==
    decayed_arg_types(F) = decayed_arg_types(slot.second.handle.params)

\* Thread t takes a step of its emit().
EmitMoves(t) == pc'[t] # pc[t] \/ em'[t].idx # em[t].idx

C7_Inv ==
    \A t \in Threads :
        (InEmit(t) \/ result[t] = "InvalidArgumentSignature") =>
            /\ Len(em[t].trace) = em[t].idx - 1
            /\ \A k \in 1..Len(em[t].trace) :
                 em[t].trace[k] =
                    [id  |-> em[t].view[k].second.handle.id,
                     how |-> IF em[t].view[k].first = t THEN "sync" ELSE "queued"]

C7_Step(t) ==
    (/\ pc[t] = "emit_iter"
     /\ em[t].idx <= em[t].end
     /\ EmitMoves(t)
     /\ ~Matches(em[t].view[em[t].idx], em[t].args))
    => /\ pc'[t] = "idle"
       /\ result'[t] = "InvalidArgumentSignature"
       /\ em'[t] = em[t]
       /\ cur'[t] = NoCall
       /\ queue' = queue

\* C7: when emit reaches a slot whose signature does not match the
\* arguments it fails there with InvalidArgumentSignature: every earlier
\* slot has been called (owner = caller) or queued (owner # caller), the
\* failing step takes nothing back from the queue, and neither the failing
\* slot nor a later one is called or queued.
C7_PartialEmit == []C7_Inv /\ [][\A t \in Threads : C7_Step(t)]_vars

\* An emit has failed at its second slot after queueing the first.
C7_Witness ==
    \E t \in Threads :
        /\ pc[t] = "idle" /\ result[t] = "InvalidArgumentSignature"
        /\ em[t].idx = 2 /\ ~em[t].stale
        /\ em[t].trace[1].how = "queued"
        /\ queue # <<>> /\ queue[1].emit = em[t].id

\* ---------------------------------------------------------------- C8
\* C8: the gate accepts a slot for an argument list exactly when the list
\* is empty and the slot's argument count is 0, or the list is not empty
\* and the slot's tag is the tag of the decayed argument types; it then
\* yields the slot's own callable; and no call that is running, being
\* pushed or queued has arguments other than its handler's parameters.
C8_Gate ==
    /\ \A n \in Names : \A i \in 1..Len(events[n]) : \A F \in EmitArgs :
         LET hc == events[n][i].second IN
         /\ (callable_ptr(hc, F) # NullH) <=>
               \/ F = <<>> /\ hc.count = 0
               \/ F # <<>> /\ hc.tag = decayed_arg_types(F)
         /\ callable_ptr(hc, F) \in {NullH, hc.handle}
    /\ \A t \in Threads :
         cur[t] # NoCall =>
            decayed_arg_types(cur[t].args) = decayed_arg_types(cur[t].h.params)
    /\ \A k \in 1..Len(queue) :
         decayed_arg_types(queue[k].args) = decayed_arg_types(queue[k].h.params)

\* emit with one int has failed at a handler that takes (int, int).
C8_Witness ==
    \E t \in Threads :
        /\ pc[t] = "idle" /\ result[t] = "InvalidArgumentSignature"
        /\ ~em[t].stale
        /\ em[t].args = <<"int&">>
        /\ em[t].view[em[t].idx].second.tag = <<"int", "int">>

\* ---------------------------------------------------------------- C9
C9_Step(t) ==
    /\ (/\ nOps' = nOps + 1
        /\ em'[t].id = nOps'
        /\ events[em'[t].name] = <<>>)
       => /\ pc[t] = "idle" /\ pc'[t] = "idle"
          /\ result'[t] = "emit_noop"
          /\ UNCHANGED <<events, queue, qlock, lmutex, quited, crashed, cur>>
    /\ \A n \in Names :
         Unregister(t, n) =>
            /\ events'[n] = <<>>
            /\ \A m \in Names \ {n} : events'[m] = events[m]
            /\ UNCHANGED <<queue, quited>>

\* C9: emit on a name that has no handler list is a no-op for any
\* arguments: it ends at once without an error, calls and queues nothing
\* and leaves the registry, the queue and the quit flag as they were; and
\* unregister removes the whole list of its name, and only that.
C9_UnknownEvent == [][\A t \in Threads : C9_Step(t)]_vars

\* The last operation is an emit that found no list, on a name whose
\* handlers had been registered, queued once, and unregistered.
C9_Witness ==
    \E t \in Threads :
        /\ pc[t] = "idle" /\ result[t] = "emit_noop"
        /\ em[t].id = nOps
        /\ events[em[t].name] = <<>>
        /\ queue # <<>>

\* --------------------------------------------------------------- C10
C10_Inv ==
    /\ \A n \in Names : \A i, j \in 1..Len(events[n]) :
         i < j => events[n][i].second.handle.id < events[n][j].second.handle.id
    /\ \A t \in Threads :
         InEmit(t) =>
            /\ \A k \in 1..Len(em[t].trace) :
                 em[t].trace[k].id = em[t].view[k].second.handle.id
            /\ pc[t] # "emit_iter" =>
                 /\ cur[t].h = em[t].view[em[t].idx].second.handle
                 /\ \A k \in 1..Len(em[t].trace) : em[t].trace[k].id < cur[t].h.id

C10_Step(t) ==
    \A n \in Names, p \in HandlerParams, r \in BOOLEAN :
        On(t, n, p, r) =>
            /\ Len(events'[n]) = Len(events[n]) + 1
            /\ SubSeq(events'[n], 1, Len(events[n])) = events[n]
            /\ events'[n][Len(events'[n])].first = t
            /\ events'[n][Len(events'[n])].second.handle.id = nOps'

\* C10: on() appends the new slot at the end of the name's list, so the
\* list is in registration order, and emit handles the slots in that order:
\* a handler starts only when every handler registered before it under the
\* name has been completed (or queued).
C10_RegistrationOrder == []C10_Inv /\ [][\A t \in Threads : C10_Step(t)]_vars

\* An emit on the owner thread runs the second handler after the first has
\* completed.
C10_Witness ==
    \E t \in Threads :
        /\ pc[t] = "emit_handler" /\ ~em[t].stale /\ ~crashed
        /\ em[t].idx = 2
        /\ em[t].trace[1].how = "sync"
        /\ cur[t].h.owner = t
        /\ em[t].view[1].second.handle.owner = t

\* --------------------------------------------------------------- C11
\* No element of the sequence occurs in it twice.
NoDup(s) == \A i, j \in 1..Len(s) : i # j => s[i] # s[j]

C11_Inv ==
    /\ pushed = invoked \o queue
    /\ NoDup(pushed)
    /\ \A t \in Threads :
         pc[t] = "loop_handler" =>
            /\ invoked # <<>>
            /\ cur[t] = invoked[Len(invoked)]

C11_Step ==
    /\ pushed' # pushed =>
          \E t \in Threads :
              /\ pc[t] = "emit_push"
              /\ pushed' = Append(pushed, cur[t])
              /\ queue' = Append(queue, cur[t])
    /\ invoked' # invoked =>
          \E t \in Threads :
              /\ pc[t] = "loop_pop" /\ pc'[t] = "loop_handler"
              /\ queue # <<>>
              /\ invoked' = Append(invoked, Head(queue))
              /\ cur'[t] = Head(queue)
              /\ queue' = Tail(queue)
    /\ queue' # queue => (pushed' # pushed \/ invoked' # invoked)

Looping(t) == pc[t] \in {"loop_wait", "loop_check", "loop_pop", "loop_handler"}

C12_Inv ==
    /\ \A t, u \in Threads : (Looping(t) /\ Looping(u)) => t = u
    /\ \A t \in Threads : Looping(t) <=> lmutex = t
    /\ \A t \in Threads : pc[t] = "loop_lock" => cur[t] = NoCall

C12_Step(t) ==
    /\ (pc[t] = "loop_lock" /\ pc'[t] # "loop_lock") =>
          /\ pc'[t] = "loop_wait"
          /\ \A u \in Threads : ~Looping(u)
    /\ (pc[t] = "loop_lock" /\ \E u \in Threads : Looping(u)) =>
          /\ pc'[t] = "loop_lock"
          /\ cur'[t] = NoCall
    /\ (~Looping(t) /\ Looping(t)') => pc[t] = "loop_lock"

\* C12: at most one thread is inside loop() past the loop lock; a thread
\* that calls loop() while another thread's loop() is running stays at the
\* lock, popping and invoking nothing, until that loop() has left and
\* released the lock.
C12_OneLoop == []C12_Inv /\ [][\A t \in Threads : C12_Step(t)]_vars

\* A second loop() waits at the lock while the first runs a pending call.
C12_Witness ==
    \E t, u \in Threads :
        /\ pc[t] = "loop_lock"
        /\ pc[u] = "loop_handler" /\ lmutex = u
        /\ ~crashed

\* --------------------------------------------------------------- C13
\* Thread t, whose last operation was not a quit(), calls quit() in this
\* step.
QuitStep(t) ==
    /\ pc[t] = "idle" /\ nOps' = nOps + 1
    /\ result[t] # "quit" /\ result'[t] = "quit"

C13_Step ==
    /\ quited => quited'
    /\ \A t \in Threads :
         QuitStep(t) =>
            /\ quited'
            /\ UNCHANGED <<events, queue, qlock, lmutex, crashed, pc, em, cur,
                           pushed, invoked>>

\* C13: no step clears the quit flag once it is set; a quit() sets it and
\* changes nothing else of the dispatcher (registry, queue, locks, running
\* calls), so a second quit() changes nothing at all.
C13_QuitMonotonic == [][C13_Step]_vars

\* Both threads have called quit(), with a handler registered and a
\* pending call queued.
C13_Witness ==
    /\ quited
    /\ \A t \in Threads : pc[t] = "idle" /\ result[t] = "quit"
    /\ queue # <<>>
    /\ \E n \in Names : events[n] # <<>>

\* --------------------------------------------------------------- C14
\* C14: every emit() call ends (by return or by an exception) whatever
\* loop() does - not running, stalled for ever in a handler body, or over
\* after quit - unless a call of a released callable has killed the
\* process.
C14_EmitTerminates ==
    \A t \in Threads : InEmit(t) ~> (~InEmit(t) \/ crashed)

\* An emit has pushed a pending call and returned while loop() is inside
\* the body of an earlier pending call.
C14_Witness ==
    \E t, u \in Threads :
        /\ pc[t] = "idle" /\ result[t] = "emit_returned"
        /\ pc[u] = "loop_handler" /\ cur[u].emit < em[t].id
        /\ queue # <<>> /\ queue[1].emit = em[t].id
        /\ ~crashed

\* --------------------------------------------------------------- C15
\* C15: once the quit flag is set, every thread inside loop() (waiting for
\* the loop lock included) leaves it, unless a call of a released callable
\* has killed the process.
C15_LoopReturnsAfterQuit ==
    \A t \in Threads : (quited /\ InLoop(t)) ~> (~InLoop(t) \/ crashed)

\* A loop() that has run a pending call has returned on a later quit.
C15_Witness ==
    \E t \in Threads :
        /\ pc[t] = "idle" /\ result[t] = "loop_returned" /\ ~enteredQuit[t]
        /\ invoked # <<>>
        /\ ~crashed

\* --------------------------------------------------------------- C16
\* C16: no step changes the handler list of a name while an emit() is
\* between its lookup of that name and the end of its walk over the list.
C16_RegistryExclusion ==
    [][\A n \in Names :
         events'[n] # events[n] =>
            ~\E u \in Threads : InEmit(u) /\ em[u].name = n]_vars

\* --------------------------------------------------------------- C17
\* C17: loop() does not evaluate its wait condition, which reads the queue,
\* while another thread is inside the critical section of a push, and no
\* thread runs a handler body while it holds the queue lock.
C17_QueueLocked ==
    /\ \A t, u \in Threads : pc[u] = "emit_pushing" => pc[t] # "loop_wait"
    /\ \A t \in Threads : pc[t] \in HandlerPcs => qlock # t

\* --------------------------------------------------------------- C18
\* C18: whenever loop() is about to call pop_remote_call the queue holds a
\* pending call, and no pop has found the queue empty.
C18_PopNonEmpty ==
    /\ \A t \in Threads : pc[t] = "loop_pop" => queue # <<>>
    /\ \A t \in Threads :
         (pc[t] = "loop_check" /\ queue = <<>>) => quited
    /\ crashed => \E t \in Threads : pc[t] \in HandlerPcs

\* quit() has been called between the quit check and the pop: loop() is
\* about to pop with the flag set.
C18_Witness ==
    \E t \in Threads :
        /\ pc[t] = "loop_pop" /\ quited /\ ~enteredQuit[t]
        /\ ~crashed

\* --------------------------------------------------------------- C19
\* C19: the callable of every pending call in the queue is alive, and so is
\* the callable of the call loop() pops and invokes.
C19_CallableAlive ==
    /\ \A k \in 1..Len(queue) : Alive(queue[k].h)
    /\ \A t \in Threads :
         (pc[t] = "loop_pop" /\ queue # <<>>) => Alive(Head(queue).h)

\* --------------------------------------------------------------- C20
\* Some thread is inside loop().
LoopRunning == \E t \in Threads : InLoop(t)

\* C20: while a loop() is running and the quit flag is not set, pending
\* calls do not stay in the queue: the calls popped and invoked catch up
\* with the calls pushed, one for one and in the same order (the pushes of
\* a behaviour are finitely many) - unless loop() is left by the exception
\* of a body, or a call of a released callable has killed the process.
C20_EveryCallInvoked ==
    (Len(invoked) < Len(pushed) /\ LoopRunning)
        ~> (invoked = pushed \/ quited \/ ~LoopRunning \/ crashed)

\* A loop() runs the second of two pending calls, with the quit flag not
\* set.
C20_Witness ==
    \E t \in Threads :
        /\ pc[t] = "loop_handler" /\ Len(invoked) = 2
        /\ cur[t] = pushed[2]
        /\ ~quited /\ ~crashed

====
